---- MODULE Spec2Model ----
(***************************************************************************)
(* TPUNodePoolProvisioner (axlearn/cloud/gcp/node_pool_provisioner.py).    *)
(*                                                                         *)
(* The provisioner is a stateless facade: create_for(job) derives a batch  *)
(* of node-pool names, labels, a capacity shape and a spot/reservation     *)
(* decision and hands them to create_node_pools; delete_for(job) derives   *)
(* the names again and hands them to delete_node_pools.  The only durable  *)
(* state is the set of pools held by the cluster control plane.            *)
(***************************************************************************)
EXTENDS Integers, Sequences, FiniteSets, TLC

VARIABLES
    config,   \* self.config of the provisioner, fixed at construction
    pools,    \* node pools that exist in the cluster control plane
    last      \* the most recent create_for / delete_for episode, as observed

vars == <<config, pools, last>>

----------------------------------------------------------------------------
(* Bounds *)

MaxReplicas == 2

----------------------------------------------------------------------------
(* Python values whose dynamic type matters to the code *)

PyNone == [type |-> "NoneType", val |-> "None"]

PyStr(s) == [type |-> "str", val |-> s]

PyInt(n) == [type |-> "int", val |-> n]

IsNone(x) == x.type = "NoneType"

\* Python ==: values of different types (int 0, str "0") are unequal.
PyEq(a, b) == a.type = b.type /\ a.val = b.val

\* str(x) for an int.
Str(x) == ToString(x.val)

Range(s) == {s[i] : i \in DOMAIN s}

----------------------------------------------------------------------------
(* Process environment: each variable is unset or set to a string *)

Unset == [set |-> FALSE, value |-> ""]

SetTo(s) == [set |-> TRUE, value |-> s]

\* os.environ.get(key, default)
EnvironGet(var, default) == IF var.set THEN PyStr(var.value) ELSE default

\* truthiness of os.environ.get(key): unset and "" are both falsy
EnvironTruthy(var) == var.set /\ var.value # ""

----------------------------------------------------------------------------
(* Collaborators outside node_pool_provisioner.py *)

\* infer_tpu_type: drops the "tpu-" prefix, "tpu-v4-8" -> "v4-8"
infer_tpu_type(instance_type) ==
    IF Len(instance_type) >= 4 /\ SubSeq(instance_type, 1, 4) = "tpu-"
    THEN SubSeq(instance_type, 5, Len(instance_type))
    ELSE instance_type

\* The capacity catalog: accelerator type -> shape.
USER_FACING_NAME_TO_SYSTEM_CHARACTERISTICS ==
    ( "v4-8" :> [topology |-> "2x2x1", vms_per_slice |-> 1,
                 gce_machine_type |-> "ct4p-hightpu-4t"] )
    @@
    ( "v5litepod-16" :> [topology |-> "4x4", vms_per_slice |-> 4,
                         gce_machine_type |-> "ct5lp-hightpu-4t"] )

\* deserialize_jobspec(...).metadata.priority; ok = FALSE when it raises.
deserialize_jobspec(s) ==
    CASE s = "priority: null" -> [ok |-> TRUE, priority |-> PyNone]
      [] s = "priority: 0" -> [ok |-> TRUE, priority |-> PyInt(0)]
      [] s = "priority: 5" -> [ok |-> TRUE, priority |-> PyInt(5)]
      [] OTHER -> [ok |-> FALSE, priority |-> PyNone]

\* construct_node_pool_name: injective in (namespace, name, index).
construct_node_pool_name(jobset_namespace, jobset_name, index) ==
    <<jobset_namespace, jobset_name, index>>

----------------------------------------------------------------------------
(* Module-level tuples of job classes *)

_PRE_PROVISIONER_SUPPORTED_JOBS == {"TPUGKEJob", "FlinkTPUGKEJob"}

_INFERENCE_JOBS == {"FlinkTPUGKEJob"}

isinstance(job, classes) == job.type \in classes

----------------------------------------------------------------------------
(* Provisioner configuration *)

DefaultRetryInterval == 30

DefaultWaitTimeout == 1800

\* project/zone/cluster come from gcp_settings; retry_interval and wait_timeout
\* keep their defaults.
ProvisionerConfig ==
    [project |-> "proj", zone |-> "zone", cluster |-> "cluster",
     name |-> "pre-provisioner", service_account_email |-> PyStr("sa@proj"),
     retry_interval |-> DefaultRetryInterval,
     wait_timeout |-> DefaultWaitTimeout]

----------------------------------------------------------------------------
(* create_for: derivation *)

\* tier = os.environ.get("BASTION_TIER", 0)
Tier(environ) == EnvironGet(environ.BASTION_TIER, PyInt(0))

Decision_keepReservation(tier, reservation) ==
    IF PyEq(tier, PyStr("0")) /\ ~IsNone(reservation)
    THEN [use_spot_vm |-> FALSE, reservation |-> reservation]
    ELSE [use_spot_vm |-> TRUE, reservation |-> reservation]

\* if tier == "0" and reservation is not None: ... else: ...
Decision(tier, reservation) ==
    IF PyEq(tier, PyStr("0")) /\ ~IsNone(reservation)
    THEN [use_spot_vm |-> FALSE, reservation |-> reservation]
    ELSE [use_spot_vm |-> TRUE, reservation |-> PyNone]

\* job_priority = None; if os.environ.get(VAR): job_priority = spec.metadata.priority
JobPriority(environ) ==
    IF EnvironTruthy(environ.BASTION_JOBSPEC)
    THEN deserialize_jobspec(environ.BASTION_JOBSPEC.value).priority
    ELSE PyNone

JobKeyString_noIndex(namespace, name, i) ==
    namespace \o "/" \o name \o "-job"

\* f"{job_cfg.namespace}/{job_cfg.name}-job-{i}"
JobKeyString(namespace, name, i) ==
    namespace \o "/" \o name \o "-job-" \o ToString(i)

\* hashlib.sha1(...).hexdigest(), taken as collision-free
Sha1Hex(s) == "sha1(" \o s \o ")"

\* dict.update({k: v})
Update(d, k, v) == (k :> v) @@ d

AdditionalLabels_truthyPriority(job, job_priority, i) ==
    LET l0 == "job-key" :> Sha1Hex(JobKeyString(job.namespace, job.name, i))
        l1 == IF ~IsNone(job_priority) /\ job_priority.val # 0
              THEN Update(l0, "job-priority", Str(job_priority))
              ELSE l0
        l2 == IF job.enable_tpu_smart_repair
              THEN Update(l1, "cloud.google.com/gke-tpu-auto-restart", "true")
              ELSE l1
    IN  l2

\* body of the loop that builds additional_labels for index i
AdditionalLabels(job, job_priority, i) ==
    LET l0 == "job-key" :> Sha1Hex(JobKeyString(job.namespace, job.name, i))
        l1 == IF ~IsNone(job_priority)
              THEN Update(l0, "job-priority", Str(job_priority))
              ELSE l0
        l2 == IF job.enable_tpu_smart_repair
              THEN Update(l1, "cloud.google.com/gke-tpu-auto-restart", "true")
              ELSE l1
    IN  l2

RECURSIVE CreateLoop(_, _, _, _)
\* for i in range(num_node_pools): node_pool_names.append(..); additional_labels_list.append(..)
CreateLoop(job, job_priority, i, acc) ==
    IF i >= job.num_replicas
    THEN acc
    ELSE CreateLoop(job, job_priority, i + 1,
            [node_pool_names |->
                Append(acc.node_pool_names,
                       construct_node_pool_name(job.namespace, job.name, i)),
             additional_labels_list |->
                Append(acc.additional_labels_list,
                       AdditionalLabels(job, job_priority, i))])

CreateBatch_reversed(job, job_priority) ==
    LET b == CreateLoop(job, job_priority, 0,
                 [node_pool_names |-> <<>>, additional_labels_list |-> <<>>])
        n == Len(b.node_pool_names)
    IN  [node_pool_names |-> [k \in 1..n |-> b.node_pool_names[n + 1 - k]],
         additional_labels_list |->
             [k \in 1..n |-> b.additional_labels_list[n + 1 - k]]]

\* node_pool_names = []; additional_labels_list = []; the loop over range(num_node_pools)
CreateBatch(job, job_priority) ==
    CreateLoop(job, job_priority, 0,
               [node_pool_names |-> <<>>, additional_labels_list |-> <<>>])

Topology_inverted(job, job_sys_property) ==
    IF isinstance(job, _INFERENCE_JOBS)
    THEN PyStr(job_sys_property.topology)
    ELSE PyNone

\* topology = None if isinstance(job, _INFERENCE_JOBS) else job_sys_property.topology
Topology(job, job_sys_property) ==
    IF isinstance(job, _INFERENCE_JOBS)
    THEN PyNone
    ELSE PyStr(job_sys_property.topology)

\* the keyword arguments of the create_node_pools(...) call
CreateNodePoolsCall(job, environ) ==
    LET job_sys_property ==
            USER_FACING_NAME_TO_SYSTEM_CHARACTERISTICS[infer_tpu_type(job.instance_type)]
        decision == Decision(Tier(environ), job.reservation)
        batch == CreateBatch(job, JobPriority(environ))
    IN  [fn |-> "create_node_pools",
         node_pool_names |-> batch.node_pool_names,
         project |-> config.project,
         zone |-> config.zone,
         cluster |-> config.cluster,
         pre_provisioner_id |-> config.name,
         num_nodes_per_pool |-> job_sys_property.vms_per_slice,
         machine_type |-> job_sys_property.gce_machine_type,
         topology |-> Topology(job, job_sys_property),
         use_spot_vm |-> decision.use_spot_vm,
         reservation |-> decision.reservation,
         location_hint |-> job.location_hint,
         enable_tpu_ici_resiliency |-> job.enable_tpu_ici_resiliency,
         service_account_email |-> config.service_account_email,
         additional_labels_list |-> batch.additional_labels_list,
         retry_interval |-> config.retry_interval,
         wait_timeout |-> config.wait_timeout]

CreateForPlan_lateJobspec(job, environ) ==
    IF ~isinstance(job, _PRE_PROVISIONER_SUPPORTED_JOBS)
    THEN [error |-> "TypeError", calls |-> <<>>]
    ELSE IF infer_tpu_type(job.instance_type)
                \notin DOMAIN USER_FACING_NAME_TO_SYSTEM_CHARACTERISTICS
    THEN [error |-> "KeyError", calls |-> <<>>]
    ELSE IF EnvironTruthy(environ.BASTION_JOBSPEC)
              /\ ~deserialize_jobspec(environ.BASTION_JOBSPEC.value).ok
    THEN [error |-> "JobspecError", calls |-> <<CreateNodePoolsCall(job, environ)>>]
    ELSE [error |-> "none", calls |-> <<CreateNodePoolsCall(job, environ)>>]

CreateForPlan_provisionOnce(job, environ) ==
    IF ~isinstance(job, _PRE_PROVISIONER_SUPPORTED_JOBS)
    THEN [error |-> "TypeError", calls |-> <<>>]
    ELSE IF infer_tpu_type(job.instance_type)
                \notin DOMAIN USER_FACING_NAME_TO_SYSTEM_CHARACTERISTICS
    THEN [error |-> "KeyError", calls |-> <<>>]
    ELSE IF EnvironTruthy(environ.BASTION_JOBSPEC)
              /\ ~deserialize_jobspec(environ.BASTION_JOBSPEC.value).ok
    THEN [error |-> "JobspecError", calls |-> <<>>]
    ELSE IF last.op = "create_for" /\ last.job = job /\ last.outcome = "ok"
    THEN [error |-> "TypeError", calls |-> <<>>]
    ELSE [error |-> "none", calls |-> <<CreateNodePoolsCall(job, environ)>>]

\* create_for up to the create_node_pools call: the exception raised on the way
\* (if any) and the control-plane calls issued, in statement order.
CreateForPlan(job, environ) ==
    IF ~isinstance(job, _PRE_PROVISIONER_SUPPORTED_JOBS)
    THEN [error |-> "TypeError", calls |-> <<>>]
    ELSE IF infer_tpu_type(job.instance_type)
                \notin DOMAIN USER_FACING_NAME_TO_SYSTEM_CHARACTERISTICS
    THEN [error |-> "KeyError", calls |-> <<>>]
    ELSE IF EnvironTruthy(environ.BASTION_JOBSPEC)
              /\ ~deserialize_jobspec(environ.BASTION_JOBSPEC.value).ok
    THEN [error |-> "JobspecError", calls |-> <<>>]
    ELSE [error |-> "none", calls |-> <<CreateNodePoolsCall(job, environ)>>]

----------------------------------------------------------------------------
(* delete_for: derivation *)

RECURSIVE DeleteLoop(_, _, _)
\* for i in range(num_node_pools): node_pool_names.append(construct_node_pool_name(..))
DeleteLoop(job, i, acc) ==
    IF i >= job.num_replicas
    THEN acc
    ELSE DeleteLoop(job, i + 1,
            Append(acc, construct_node_pool_name(job.namespace, job.name, i)))

DeleteNames_skipFirst(job) == DeleteLoop(job, 1, <<>>)

\* node_pool_names = []; the loop over range(num_node_pools)
DeleteNames(job) == DeleteLoop(job, 0, <<>>)

\* the keyword arguments of the delete_node_pools(...) call
DeleteNodePoolsCall(job) ==
    [fn |-> "delete_node_pools",
     node_pool_names |-> DeleteNames(job),
     project |-> config.project,
     zone |-> config.zone,
     cluster |-> config.cluster,
     retry_interval |-> config.retry_interval,
     wait_timeout |-> config.wait_timeout]

\* delete_for up to the delete_node_pools call.
DeleteForPlan(job) ==
    IF ~isinstance(job, _PRE_PROVISIONER_SUPPORTED_JOBS)
    THEN [error |-> "TypeError", calls |-> <<>>]
    ELSE [error |-> "none", calls |-> <<DeleteNodePoolsCall(job)>>]

----------------------------------------------------------------------------
(* The control-plane client: blocks until every pool of the batch settles  *)
(* or the deadline expires.  `settled` is the set of pools of the batch    *)
(* that reach the terminal state during this call.                         *)

\* Existing pools count as already satisfied; the call raises when some
\* pool of the batch is still not ready at the deadline.
create_node_pools(node_pool_names, settled) ==
    [pools |-> pools \cup settled,
     raised |-> ~(Range(node_pool_names) \subseteq pools \cup settled)]

\* Absent pools are a no-op; the call raises when some pool of the batch
\* still exists at the deadline.
delete_node_pools(node_pool_names, settled) ==
    [pools |-> pools \ settled,
     raised |-> Range(node_pool_names) \cap (pools \ settled) # {}]

----------------------------------------------------------------------------
(* Episodes *)

Outcome_swallow(error, driver) ==
    IF error # "none" THEN error ELSE "ok"

\* Neither operation has a try/except: whatever is raised propagates to the
\* caller, otherwise the operation returns normally.
Outcome(error, driver) ==
    IF driver = "failed" THEN "ControlPlaneError"
    ELSE IF error # "none" THEN error
    ELSE "ok"

NoJob ==
    [type |-> "none", namespace |-> "", name |-> "", instance_type |-> "",
     num_replicas |-> 0, reservation |-> PyNone, location_hint |-> PyNone,
     enable_tpu_ici_resiliency |-> FALSE, enable_tpu_smart_repair |-> FALSE]

NoEnviron == [BASTION_TIER |-> Unset, BASTION_JOBSPEC |-> Unset]

\* What the previous episode was, relative to the one that follows it:
\* a create_for of the same job in the same environment that returned
\* ("create_ok") or failed in the control plane ("create_failed").
After(op, job, environ) ==
    IF last.op = "create_for" /\ last.job = job
         /\ (op = "create_for" => last.environ = environ)
    THEN CASE last.outcome = "ok" -> "create_ok"
           [] last.outcome = "ControlPlaneError" -> "create_failed"
           [] OTHER -> "fresh"
    ELSE "fresh"

Init ==
    /\ config = ProvisionerConfig
    /\ pools = {}
    /\ last = [op |-> "none", job |-> NoJob, environ |-> NoEnviron, calls |-> <<>>,
               driver |-> "none", outcome |-> "none", after |-> "fresh"]

\* The episode record observed after an operation.
Episode(op, job, environ, plan, driver) ==
    [op |-> op, job |-> job, environ |-> environ, calls |-> plan.calls,
     driver |-> driver, outcome |-> Outcome(plan.error, driver),
     after |-> After(op, job, environ)]

create_for(job, environ) ==
    \E plan \in {CreateForPlan(job, environ)} :
        /\ config' = config
        /\ IF plan.calls = <<>>
           THEN /\ pools' = pools
                /\ last' = Episode("create_for", job, environ, plan, "none")
           ELSE \E settled \in SUBSET Range(plan.calls[1].node_pool_names) :
                \E r \in {create_node_pools(plan.calls[1].node_pool_names, settled)} :
                    /\ pools' = r.pools
                    /\ last' = Episode("create_for", job, environ, plan,
                                       IF r.raised THEN "failed" ELSE "ok")

delete_for(job) ==
    \E plan \in {DeleteForPlan(job)} :
        /\ config' = config
        /\ IF plan.calls = <<>>
           THEN /\ pools' = pools
                /\ last' = Episode("delete_for", job, NoEnviron, plan, "none")
           ELSE \E settled \in SUBSET Range(plan.calls[1].node_pool_names) :
                \E r \in {delete_node_pools(plan.calls[1].node_pool_names, settled)} :
                    /\ pools' = r.pools
                    /\ last' = Episode("delete_for", job, NoEnviron, plan,
                                       IF r.raised THEN "failed" ELSE "ok")

----------------------------------------------------------------------------
(* Inputs *)

JobsOver(identities, types, instance_types, reservations, repairs) ==
    { [type |-> t, namespace |-> id[1], name |-> id[2], instance_type |-> it,
       num_replicas |-> n, reservation |-> r, location_hint |-> PyNone,
       enable_tpu_ici_resiliency |-> FALSE, enable_tpu_smart_repair |-> sr]
      : id \in identities, t \in types, it \in instance_types,
        n \in 1..MaxReplicas, r \in reservations, sr \in repairs }

EnvironsOver(tiers, jobspecs) ==
    { [BASTION_TIER |-> t, BASTION_JOBSPEC |-> js] : t \in tiers, js \in jobspecs }

\* One job identity.  Every job category with every accelerator type, and
\* every reservation with every auto-repair flag for a TPUGKEJob.
Jobs ==
    JobsOver({<<"ns1", "job1">>},
             {"TPUGKEJob", "FlinkTPUGKEJob", "GPUGKEJob"},
             {"tpu-v4-8", "tpu-v5litepod-16", "tpu-v9-8"},
             {PyStr("resA")}, {FALSE})
    \cup
    JobsOver({<<"ns1", "job1">>},
             {"TPUGKEJob"}, {"tpu-v5litepod-16"},
             {PyNone, PyStr("resA")}, BOOLEAN)

\* Every tier signal without a job descriptor, and every job descriptor at
\* tier "0".
Environs ==
    EnvironsOver({Unset, SetTo("0"), SetTo("1")}, {Unset})
    \cup
    EnvironsOver({SetTo("0")},
                 {Unset, SetTo(""), SetTo("%not a jobspec%"), SetTo("priority: null"),
                  SetTo("priority: 0"), SetTo("priority: 5")})

Next ==
    \/ \E job \in Jobs, environ \in Environs : create_for(job, environ)
    \/ \E job \in Jobs : delete_for(job)

Spec == Init /\ [][Next]_vars

\* Several job identities sharing one cluster.
NamingJobs ==
    JobsOver({<<"a", "c">>, <<"a", "b/c">>, <<"a/b", "c">>},
             {"TPUGKEJob"}, {"tpu-v4-8"}, {PyStr("resA")}, {FALSE})

NamingEnvirons == EnvironsOver({SetTo("0")}, {SetTo("priority: 5")})

NextNaming ==
    \/ \E job \in NamingJobs, environ \in NamingEnvirons : create_for(job, environ)
    \/ \E job \in NamingJobs : delete_for(job)

SpecNaming == Init /\ [][NextNaming]_vars

----------------------------------------------------------------------------
(* Properties *)

SupportedCreate(e) == e.op = "create_for" /\ e.calls # <<>>

DerivationErrors == {"TypeError", "KeyError", "JobspecError"}

\* The names of the pools of a job, index 0 first.
PoolNamesOf(job) ==
    [k \in 1..job.num_replicas |->
        construct_node_pool_name(job.namespace, job.name, k - 1)]

\* C1: for every explicit tier value, create_for passes use_spot_vm = false
\* and the job's reservation when the tier is "0" and the reservation is
\* non-null, and use_spot_vm = true with reservation None in every other case;
\* use_spot_vm = true is never passed together with a non-null reservation.
C1_PolicyTable ==
    SupportedCreate(last) =>
        LET c == last.calls[1]
            R == last.job.reservation
            tier == last.environ.BASTION_TIER
        IN  /\ tier.set =>
                IF tier.value = "0" /\ ~IsNone(R)
                THEN c.use_spot_vm = FALSE /\ c.reservation = R
                ELSE c.use_spot_vm = TRUE /\ IsNone(c.reservation)
            /\ ~(c.use_spot_vm /\ ~IsNone(c.reservation))

C1_Witness ==
    /\ SupportedCreate(last)
    /\ last.environ.BASTION_TIER = SetTo("1")
    /\ last.job.reservation = PyStr("resA")
    /\ last.calls[1].use_spot_vm

\* C2: when BASTION_TIER is absent from the environment and the job has a
\* non-null reservation R, create_for passes use_spot_vm = false and
\* reservation = R, as for an explicit tier "0".
C2_AbsentTierIsTopTier ==
    ( /\ SupportedCreate(last)
      /\ ~last.environ.BASTION_TIER.set
      /\ ~IsNone(last.job.reservation) )
    => ( /\ last.calls[1].use_spot_vm = FALSE
         /\ last.calls[1].reservation = last.job.reservation )

\* C3: an operation that fails with a derivation error (unsupported job type,
\* accelerator type missing from the catalog, unreadable job descriptor) has
\* issued no control-plane call and has left the set of pools unchanged.
C3_FailFast ==
    [][ last'.outcome \in DerivationErrors =>
            /\ last'.calls = <<>>
            /\ last'.driver = "none"
            /\ pools' = pools ]_vars

C3_Witness ==
    /\ last.op = "create_for"
    /\ last.outcome = "JobspecError"
    /\ last.calls = <<>>
    /\ pools # {}

ResolvedPriority(environ) ==
    IF environ.BASTION_JOBSPEC.set /\ environ.BASTION_JOBSPEC.value # ""
    THEN deserialize_jobspec(environ.BASTION_JOBSPEC.value).priority
    ELSE PyNone

\* C5: the label list has one map per pool name; the i-th map holds the
\* job-key label of index i, a job-priority label with the stringified
\* priority iff a priority was resolved from the job descriptor (priority 0
\* gives "0"), the auto-restart label "true" iff the auto-repair flag is set,
\* and no other key.
C5_Labels ==
    SupportedCreate(last) =>
        LET c == last.calls[1]
            job == last.job
            prio == ResolvedPriority(last.environ)
        IN  /\ Len(c.additional_labels_list) = Len(c.node_pool_names)
            /\ \A k \in 1..Len(c.additional_labels_list) :
                 LET l == c.additional_labels_list[k]
                 IN  /\ DOMAIN l =
                            {"job-key"}
                            \cup (IF IsNone(prio) THEN {} ELSE {"job-priority"})
                            \cup (IF job.enable_tpu_smart_repair
                                  THEN {"cloud.google.com/gke-tpu-auto-restart"}
                                  ELSE {})
                     /\ l["job-key"] =
                            Sha1Hex(JobKeyString(job.namespace, job.name, k - 1))
                     /\ ~IsNone(prio) => l["job-priority"] = ToString(prio.val)
                     /\ job.enable_tpu_smart_repair =>
                            l["cloud.google.com/gke-tpu-auto-restart"] = "true"

C5_Witness ==
    /\ SupportedCreate(last)
    /\ last.environ.BASTION_JOBSPEC = SetTo("priority: 0")
    /\ last.job.enable_tpu_smart_repair
    /\ last.calls[1].use_spot_vm
    /\ last.calls[1].additional_labels_list[1]["job-priority"] = "0"

\* C6: the topology passed to create_node_pools is None iff the job is a
\* FlinkTPUGKEJob, and is otherwise the topology of the catalog shape of the
\* job's accelerator type; node count and machine type come from the catalog
\* shape for both categories.
C6_Topology ==
    SupportedCreate(last) =>
        LET c == last.calls[1]
            shape == USER_FACING_NAME_TO_SYSTEM_CHARACTERISTICS[
                         infer_tpu_type(last.job.instance_type)]
        IN  /\ IsNone(c.topology) <=> last.job.type = "FlinkTPUGKEJob"
            /\ last.job.type # "FlinkTPUGKEJob" => c.topology = PyStr(shape.topology)
            /\ c.num_nodes_per_pool = shape.vms_per_slice
            /\ c.machine_type = shape.gce_machine_type

C6_Witness ==
    /\ SupportedCreate(last)
    /\ last.job.type = "FlinkTPUGKEJob"
    /\ IsNone(last.calls[1].topology)
    /\ last.calls[1].num_nodes_per_pool = 4

\* C7: when the control-plane call of an episode fails, the operation fails
\* with that error; it has issued exactly that one call (no rollback delete,
\* no second create), so a failed create_for removes no pool and a failed
\* delete_for creates none.
C7_SurfaceNoRollback ==
    [][ last'.driver = "failed" =>
            /\ last'.outcome = "ControlPlaneError"
            /\ Len(last'.calls) = 1
            /\ last'.op = "create_for" =>
                   /\ last'.calls[1].fn = "create_node_pools"
                   /\ pools \subseteq pools'
            /\ last'.op = "delete_for" =>
                   /\ last'.calls[1].fn = "delete_node_pools"
                   /\ pools' \subseteq pools ]_vars

C7_Witness ==
    /\ last.op = "create_for"
    /\ last.driver = "failed"
    /\ last.outcome = "ControlPlaneError"
    /\ Range(last.calls[1].node_pool_names) \cap pools # {}

\* C8: delete_for of a supported job always reaches the control-plane delete,
\* whatever came before and whatever the accelerator type; when that delete
\* completes, delete_for returns normally and none of the job's pools exists.
C8_CleanupAlwaysPossible ==
    (last.op = "delete_for" /\ isinstance(last.job, _PRE_PROVISIONER_SUPPORTED_JOBS)) =>
        /\ last.driver \in {"ok", "failed"}
        /\ last.driver = "ok" =>
              /\ last.outcome = "ok"
              /\ Range(PoolNamesOf(last.job)) \cap pools = {}

C8_Witness ==
    /\ last.op = "delete_for"
    /\ last.after = "create_failed"
    /\ last.outcome = "ok"
    /\ last.job.num_replicas >= 2

JobKeys(e) ==
    IF SupportedCreate(e)
    THEN { [triple |-> <<e.job.namespace, e.job.name, k - 1>>,
            key |-> e.calls[1].additional_labels_list[k]["job-key"]]
           : k \in 1..Len(e.calls[1].additional_labels_list) }
    ELSE {}

HasSlash(s) == \E k \in 1..Len(s) : SubSeq(s, k, k) = "/"

\* C10 as stated: two pools with distinct (namespace, name, index) triples,
\* of one episode or of two consecutive episodes, carry distinct job-key values.
C10_DistinctJobKeys ==
    [][ \A x \in JobKeys(last) \cup JobKeys(last'), y \in JobKeys(last') :
            x.triple # y.triple => x.key # y.key ]_vars

\* C10: two pools with distinct (namespace, name, index) triples whose
\* namespaces contain no "/", of one episode or of two consecutive episodes,
\* carry distinct job-key values.
C10_DistinctJobKeysNoSlash ==
    [][ \A x \in JobKeys(last) \cup JobKeys(last'), y \in JobKeys(last') :
            ( /\ x.triple # y.triple
              /\ ~HasSlash(x.triple[1])
              /\ ~HasSlash(y.triple[1]) )
            => x.key # y.key ]_vars

C10_Witness ==
    /\ SupportedCreate(last)
    /\ ~HasSlash(last.job.namespace)
    /\ \E x, y \in JobKeys(last) : x.triple # y.triple /\ x.key # y.key

====
